---- MODULE Spec2Model ----
(***************************************************************************)
(* ConversationExtractor of ChatGPT_IOS_parser.py: the conversation-tree   *)
(* walk (parse_tree_node), the per-document extraction                      *)
(* (extract_conversation) and the directory run (extract_all).             *)
(*                                                                         *)
(* Two state machines share this module:                                   *)
(*   SpecTree  one reconstruction, step by step: the storage of one        *)
(*             document is decoded and parse_tree_node is executed one     *)
(*             call / return at a time on an explicit call stack;          *)
(*   Spec      one extractor object over one directory: each call of       *)
(*             extract_conversation / extract_all is one action, with      *)
(*             parse_tree_node as the recursive operator ParseTreeNode.    *)
(* An exception is the outcome "raised"; line numbers are those of         *)
(* ChatGPT_IOS_parser.py.                                                  *)
(***************************************************************************)
EXTENDS Integers, Sequences, FiniteSets, TLC

VARIABLES
    \* ---- one reconstruction (SpecTree) ----
    storage,        \* data['tree']['storage'] as read from the document
    root_id,        \* the start id handed to parse_tree_node (line 309)
    storage_dict,   \* the decoded id -> node mapping (lines 289-299)
    visited,        \* the visited set shared by all recursive calls
    stack,          \* call stack of parse_tree_node, innermost frame last
    result,         \* the list returned by the outermost call
    status,         \* "init" | "walking" | "returned" | "raised" |
                    \* "undecoded" (line 299 raised, no walk)
    entered,        \* history: the node ids line 219 ran for, in order
    \* ---- one extractor over one directory (Spec) ----
    dir,              \* the *.json files of conversations_dir: name -> document
    tz,               \* the time zone of the process (TZ): the local clock's
                      \* shift against its shift on 2001-01-01, see Zone
    dir_state,        \* conversations_dir itself: "readable" | "missing" |
                      \* "unreadable" | "unlistable", see Opened and Glob
    conversations,    \* self.conversations
    file_hashes,      \* self.file_hashes
    extraction_stats, \* self.extraction_stats
    returned,         \* what the last call returned: a list of records
                      \* (extract_conversation: <<>> for None, or <<record>>)
    calls,            \* history: the calls made on the extractor, in order
    room              \* the calls of parse_tree_node the interpreter lets
                      \* nest from line 309 on, see DefaultRoom; where the
                      \* extractor reads files it is LoadRoom or more

tree_vars ==
    <<storage, root_id, storage_dict, visited, stack, result, status, entered>>

extractor_vars ==
    <<dir, tz, dir_state, conversations, file_hashes, extraction_stats, returned,
      calls, room>>

vars ==
    <<storage, root_id, storage_dict, visited, stack, result, status, entered,
      dir, tz, dir_state, conversations, file_hashes, extraction_stats, returned,
      calls, room>>

----------------------------------------------------------------------------
(* Bounds of the model *)

\* total number of child references in one keyed storage mapping
MaxEdges == 3
\* number of elements of a flat alternating storage list
MaxFlat == 5
\* number of calls made on one extractor
MaxCalls == 2

----------------------------------------------------------------------------
(* The local clock, datetime.fromtimestamp of line 377 *)

SecondsPerDay == 24 * 60 * 60

(* Days are counted from 2001-01-01, day 0, a Monday; seconds from its       *)
(* midnight on a clock that keeps the zone's time of that day all year.      *)
IsLeap(y) == y % 4 = 0 /\ (y % 100 # 0 \/ y % 400 = 0)

\* the day number of January 1 of year y
DaysBeforeYear(y) ==
    365 * (y - 2001) + ((y - 1) \div 4 - (y - 1) \div 100 + (y - 1) \div 400) - 485

\* the days of year y before its month m
DaysBeforeMonth(y, m) ==
    <<0, 31, 59, 90, 120, 151, 181, 212, 243, 273, 304, 334>>[m]
        + (IF m > 2 /\ IsLeap(y) THEN 1 ELSE 0)

\* the year a day lies in
YearOf(day) ==
    LET g == 2001 + day \div 365 IN
    CHOOSE y \in {g - 1, g, g + 1} : DaysBeforeYear(y) <= day /\ day < DaysBeforeYear(y + 1)

\* 0 for Sunday ... 6 for Saturday
Weekday(day) == (day + 1) % 7

SundayOnOrAfter(day) == day + ((7 - Weekday(day)) % 7)

\* the n-th Sunday of month m of year y
NthSunday(y, m, n) ==
    SundayOnOrAfter(DaysBeforeYear(y) + DaysBeforeMonth(y, m)) + 7 * (n - 1)

\* the last Sunday of month m < 12 of year y
LastSunday(y, m) ==
    SundayOnOrAfter(DaysBeforeYear(y) + DaysBeforeMonth(y, m + 1) - 7)

\* a yearly change of the clock: the nth (0: the last) Sunday of a month, sec
\* seconds into the day
Rule(month, nth, sec) == [month |-> month, nth |-> nth, sec |-> sec]

RuleDay(y, r) == IF r.nth = 0 THEN LastSunday(y, r.month) ELSE NthSunday(y, r.month, r.nth)

(* The time zone of the process (TZ), as the installed tz database has it.   *)
(* shift is what the local clock is ahead of the time it kept on 2001-01-01. *)
(* Before rule_year the shift is read from table, pairs <<timestamp, shift   *)
(* from then on>> in ascending order (initial before the first pair); from   *)
(* rule_year on it is inside between the changes on and off of each year,    *)
(* and 0 otherwise.                                                          *)
Zone(initial, table, rule_year, on, off, inside) ==
    [initial |-> initial, table |-> table, rule_year |-> rule_year,
     on |-> on, off |-> off, inside |-> inside]

\* the shift of the local clock at a timestamp
Shift(zone, cocoa_timestamp) ==
    LET day == cocoa_timestamp \div SecondsPerDay
        sec == cocoa_timestamp % SecondsPerDay
        y == YearOf(day)
        NotBefore(r) == \/ RuleDay(y, r) < day
                        \/ RuleDay(y, r) = day /\ r.sec <= sec
        k == Cardinality({i \in 1..Len(zone.table) : zone.table[i][1] <= cocoa_timestamp})
    IN  IF y >= zone.rule_year
        THEN IF NotBefore(zone.on) /\ ~NotBefore(zone.off) THEN zone.inside ELSE 0
        ELSE IF k = 0 THEN zone.initial ELSE zone.table[k][2]

\* no change of the clock at all
UTC == Zone(0, <<>>, 1, Rule(1, 1, 0), Rule(1, 1, 0), 0)

\* America/New_York before 2007: every change of the clock from 1933 on
NewYorkTable ==
    << <<-2135628000, 3600>>, <<-2122930800, 0>>, <<-2104178400, 3600>>,
      <<-2090876400, 0>>, <<-2072728800, 3600>>, <<-2059426800, 0>>,
      <<-2041279200, 3600>>, <<-2027977200, 0>>, <<-2009829600, 3600>>,
      <<-1996527600, 0>>, <<-1978380000, 3600>>, <<-1965078000, 0>>,
      <<-1946325600, 3600>>, <<-1933628400, 0>>, <<-1914876000, 3600>>,
      <<-1901574000, 0>>, <<-1883426400, 3600>>, <<-1870124400, 0>>,
      <<-1858543200, 3600>>, <<-1743721200, 0>>, <<-1725573600, 3600>>,
      <<-1712271600, 0>>, <<-1694124000, 3600>>, <<-1680822000, 0>>,
      <<-1662674400, 3600>>, <<-1649372400, 0>>, <<-1631224800, 3600>>,
      <<-1617922800, 0>>, <<-1599170400, 3600>>, <<-1586473200, 0>>,
      <<-1567720800, 3600>>, <<-1554418800, 0>>, <<-1536271200, 3600>>,
      <<-1522969200, 0>>, <<-1504821600, 3600>>, <<-1491519600, 0>>,
      <<-1473372000, 3600>>, <<-1460070000, 0>>, <<-1441922400, 3600>>,
      <<-1425596400, 0>>, <<-1409868000, 3600>>, <<-1394146800, 0>>,
      <<-1378418400, 3600>>, <<-1362697200, 0>>, <<-1346968800, 3600>>,
      <<-1331247600, 0>>, <<-1315519200, 3600>>, <<-1299798000, 0>>,
      <<-1284069600, 3600>>, <<-1267743600, 0>>, <<-1252015200, 3600>>,
      <<-1236294000, 0>>, <<-1220565600, 3600>>, <<-1204844400, 0>>,
      <<-1189116000, 3600>>, <<-1173394800, 0>>, <<-1157666400, 3600>>,
      <<-1141945200, 0>>, <<-1126216800, 3600>>, <<-1109890800, 0>>,
      <<-1094767200, 3600>>, <<-1078441200, 0>>, <<-1062712800, 3600>>,
      <<-1046991600, 0>>, <<-1031263200, 3600>>, <<-1015542000, 0>>,
      <<-999813600, 3600>>, <<-984092400, 0>>, <<-968364000, 3600>>,
      <<-952642800, 0>>, <<-936914400, 3600>>, <<-920588400, 0>>,
      <<-904860000, 3600>>, <<-889138800, 0>>, <<-873410400, 3600>>,
      <<-857689200, 0>>, <<-851637600, 3600>>, <<-826239600, 0>>,
      <<-815954400, 3600>>, <<-794790000, 0>>, <<-779061600, 3600>>,
      <<-762735600, 0>>, <<-747612000, 3600>>, <<-731286000, 0>>,
      <<-715557600, 3600>>, <<-699836400, 0>>, <<-684108000, 3600>>,
      <<-668386800, 0>>, <<-652658400, 3600>>, <<-636937200, 0>>,
      <<-621208800, 3600>>, <<-605487600, 0>>, <<-589759200, 3600>>,
      <<-573433200, 0>>, <<-558309600, 3600>>, <<-541983600, 0>>,
      <<-526255200, 3600>>, <<-510534000, 0>>, <<-494805600, 3600>>,
      <<-479084400, 0>>, <<-463356000, 3600>>, <<-447634800, 0>>,
      <<-433720800, 3600>>, <<-416185200, 0>>, <<-402271200, 3600>>,
      <<-384130800, 0>>, <<-370821600, 3600>>, <<-352681200, 0>>,
      <<-339372000, 3600>>, <<-321231600, 0>>, <<-307317600, 3600>>,
      <<-289782000, 0>>, <<-275868000, 3600>>, <<-258332400, 0>>,
      <<-244418400, 3600>>, <<-226278000, 0>>, <<-212968800, 3600>>,
      <<-194828400, 0>>, <<-181519200, 3600>>, <<-163378800, 0>>,
      <<-149464800, 3600>>, <<-131929200, 0>>, <<-118015200, 3600>>,
      <<-100479600, 0>>, <<-86565600, 3600>>, <<-69030000, 0>>,
      <<-55116000, 3600>>, <<-36975600, 0>>, <<-23666400, 3600>>,
      <<-5526000, 0>>, <<7783200, 3600>>, <<25923600, 0>>,
      <<39837600, 3600>>, <<57373200, 0>>, <<71287200, 3600>>,
      <<88822800, 0>>, <<102736800, 3600>>, <<120877200, 0>>,
      <<134186400, 3600>>, <<152326800, 0>>, <<165636000, 3600>>,
      <<183776400, 0>>>>

\* from 2007: daylight time from the second Sunday of March, 02:00, to the
\* first Sunday of November, 02:00 daylight time
NewYork == Zone(0, NewYorkTable, 2007, Rule(3, 2, 7200), Rule(11, 1, 3600), 3600)

\* Europe/Berlin before 1996: every change of the clock from 1940 on
BerlinTable ==
    << <<-1917208800, 3600>>, <<-1835560800, 0>>, <<-1822860000, 3600>>,
      <<-1806530400, 0>>, <<-1790805600, 3600>>, <<-1775080800, 0>>,
      <<-1759356000, 3600>>, <<-1754866800, 7200>>, <<-1744239600, 3600>>,
      <<-1739484000, 0>>, <<-1726783200, 3600>>, <<-1711576800, 0>>,
      <<-1695934800, 3600>>, <<-1692914400, 7200>>, <<-1688684400, 3600>>,
      <<-1680213600, 0>>, <<-1663279200, 3600>>, <<-1648764000, 0>>,
      <<-1632434400, 3600>>, <<-1617314400, 0>>, <<-654472800, 3600>>,
      <<-639352800, 0>>, <<-623628000, 3600>>, <<-607903200, 0>>,
      <<-592178400, 3600>>, <<-576453600, 0>>, <<-560728800, 3600>>,
      <<-545004000, 0>>, <<-529279200, 3600>>, <<-512949600, 0>>,
      <<-497224800, 3600>>, <<-481500000, 0>>, <<-465775200, 3600>>,
      <<-450050400, 0>>, <<-434325600, 3600>>, <<-418600800, 0>>,
      <<-402876000, 3600>>, <<-387151200, 0>>, <<-371426400, 3600>>,
      <<-355701600, 0>>, <<-339976800, 3600>>, <<-323647200, 0>>,
      <<-307922400, 3600>>, <<-292197600, 0>>, <<-276472800, 3600>>,
      <<-260748000, 0>>, <<-245023200, 3600>>, <<-229298400, 0>>,
      <<-213573600, 3600>>, <<-197848800, 0>>, <<-182124000, 3600>>,
      <<-166399200, 0>>>>

\* from 1996: summer time from the last Sunday of March, 02:00, to the last
\* Sunday of October, 03:00 summer time
Berlin == Zone(0, BerlinTable, 1996, Rule(3, 0, 7200), Rule(10, 0, 7200), 3600)

\* Australia/Sydney before 2008: every change of the clock from 1942 on;
\* 2001-01-01 lies in daylight time, so standard time is the shifted one
SydneyTable ==
    << <<-1861909200, 0>>, <<-1854392400, -3600>>, <<-1838667600, 0>>,
      <<-1822942800, -3600>>, <<-1806613200, 0>>, <<-1791493200, -3600>>,
      <<-920581200, 0>>, <<-910299600, -3600>>, <<-889131600, 0>>,
      <<-878245200, -3600>>, <<-857682000, 0>>, <<-846795600, -3600>>,
      <<-826232400, 0>>, <<-815346000, -3600>>, <<-794782800, 0>>,
      <<-783291600, -3600>>, <<-762728400, 0>>, <<-751842000, -3600>>,
      <<-731278800, 0>>, <<-720392400, -3600>>, <<-699829200, 0>>,
      <<-688942800, -3600>>, <<-668379600, 0>>, <<-657493200, -3600>>,
      <<-636930000, 0>>, <<-626043600, -3600>>, <<-605480400, 0>>,
      <<-591570000, -3600>>, <<-573426000, 0>>, <<-562539600, -3600>>,
      <<-541976400, 0>>, <<-531090000, -3600>>, <<-510526800, 0>>,
      <<-499640400, -3600>>, <<-479077200, 0>>, <<-466981200, -3600>>,
      <<-448232400, 0>>, <<-435531600, -3600>>, <<-416178000, 0>>,
      <<-403477200, -3600>>, <<-384123600, 0>>, <<-372027600, -3600>>,
      <<-352674000, 0>>, <<-341787600, -3600>>, <<-321224400, 0>>,
      <<-310338000, -3600>>, <<-289774800, 0>>, <<-278888400, -3600>>,
      <<-258325200, 0>>, <<-246834000, -3600>>, <<-226270800, 0>>,
      <<-215384400, -3600>>, <<-194821200, 0>>, <<-183934800, -3600>>,
      <<-163371600, 0>>, <<-150066000, -3600>>, <<-131922000, 0>>,
      <<-118616400, -3600>>, <<-100472400, 0>>, <<-87166800, -3600>>,
      <<-69022800, 0>>, <<-55717200, -3600>>, <<-36968400, 0>>,
      <<-24267600, -3600>>, <<-10962000, 0>>, <<7182000, -3600>>,
      <<25930800, 0>>, <<39236400, -3600>>, <<57380400, 0>>,
      <<70686000, -3600>>, <<88830000, 0>>, <<102135600, -3600>>,
      <<120884400, 0>>, <<133585200, -3600>>, <<152334000, 0>>,
      <<165639600, -3600>>, <<183783600, 0>>, <<196484400, -3600>>,
      <<215233200, 0>>>>

\* from 2008: standard time from the first Sunday of April, 03:00 daylight
\* time, to the first Sunday of October, 02:00
Sydney ==
    Zone(0 - 3600, SydneyTable, 2008, Rule(4, 1, 10800), Rule(10, 1, 10800), 0 - 3600)

----------------------------------------------------------------------------
(* JSON values of a document, as far as the code looks at them *)

Ids == {"a", "b", "c"}

(* An id is the JSON value a flat list has at an id position, or a node      *)
(* lists as a child: a string (those of Ids, and of DeepIds below); null     *)
(* (NullId); the number 1 or true, equal to each other and with one hash, so *)
(* one key of a dict (NumberId); an object or a list, which cannot be hashed *)
(* (ObjectId).  No string id of the model is spelled like the last three.    *)
NullId == "<null>"
NumberId == "<1>"
ObjectId == "<object>"

\* node_id in visited (line 216) raises TypeError: unhashable type
UnhashableId(id) == id = ObjectId

\* A text is a sequence of characters; " " stands for any whitespace.
Blank == " "

RECURSIVE LStrip(_)
LStrip(text) ==
    IF text # <<>> /\ Head(text) = Blank THEN LStrip(Tail(text)) ELSE text

RECURSIVE RStrip(_)
RStrip(text) ==
    IF text # <<>> /\ text[Len(text)] = Blank
    THEN RStrip(SubSeq(text, 1, Len(text) - 1))
    ELSE text

\* str.strip() (line 256)
Strip(text) == RStrip(LStrip(text))

\* the marker appended for an image part (line 249)
IMAGE_PLACEHOLDER == <<"[IMAGE_PLACEHOLDER]">>

(* A part of content.parts.  kind: "str" a JSON string, "dict" a JSON object *)
(* with content_type ctype, "other" any other JSON value.  text is the       *)
(* string itself, or the object's 'text' (hastext FALSE: the key is absent;  *)
(* textnull TRUE: the key holds null).                                       *)
StrPart(t) ==
    [kind |-> "str", ctype |-> "", text |-> t, hastext |-> TRUE,
     textnull |-> FALSE, asset_pointer |-> ""]
TypedPart(ct, t) ==
    [kind |-> "dict", ctype |-> ct, text |-> t, hastext |-> TRUE,
     textnull |-> FALSE, asset_pointer |-> ""]
NullTextPart(ct) ==
    [kind |-> "dict", ctype |-> ct, text |-> <<>>, hastext |-> TRUE,
     textnull |-> TRUE, asset_pointer |-> ""]
ImagePart(ap) ==
    [kind |-> "dict", ctype |-> "image_asset_pointer", text |-> <<>>,
     hastext |-> FALSE, textnull |-> FALSE, asset_pointer |-> ap]
OtherPart ==
    [kind |-> "other", ctype |-> "", text |-> <<>>, hastext |-> FALSE,
     textnull |-> FALSE, asset_pointer |-> ""]

----------------------------------------------------------------------------
(* parse_tree_node, lines 211-272 *)

(* The recursion limit.  Line 270 calls parse_tree_node once for every node  *)
(* of a path, each call in a Python frame of its own.  The interpreter       *)
(* allows sys.getrecursionlimit() frames, 1000 as the program sets no other  *)
(* limit; in the last of them a method call (visited.add, line 219) raises   *)
(* RecursionError, so that a call made there can only leave through line     *)
(* 217.  MainFrames are in use at line 309 when main runs the extraction:    *)
(* the module, main (line 915), extract_all (line 351) and                   *)
(* extract_conversation.                                                     *)
RecursionLimit == 1000
MainFrames == 4

\* the calls of parse_tree_node that can nest and run to their end under main
DefaultRoom == RecursionLimit - 1 - MainFrames

(* A small room: what is left when the extractor is called from a deep stack *)
(* or under a low limit, still room enough for lines 280-287 and for line    *)
(* 344 to list, hash and load the documents below.                           *)
SmallRoom == 16

(* The room lines 276-308 and the except branch need.  md5_file, open and    *)
(* json.load are called from the frame of extract_conversation, and          *)
(* json.load nests one call for every level of the JSON text: with room for  *)
(* LoadRoom nested calls at line 309 they run to their end on every document *)
(* of the model; with less, on some documents they end in RecursionError.    *)
LoadRoom == 13

\* line 216 without its visited test
SkipsAbsentOnly(node_id, sd, seen) == node_id \notin DOMAIN sd

\* the guard of line 216
Skips(node_id, sd, seen) == node_id \in seen \/ node_id \notin DOMAIN sd

(* How the call parse_tree_node(node_id, storage_dict, visited) begins, with *)
(* room for left more calls to run: "unhashable", line 216 raises TypeError; *)
(* "skip", line 217 returns []; "overflow", line 219 raises RecursionError;  *)
(* "enter", lines 219-272 run.                                               *)
CallKind(node_id, sd, seen, left) ==
    IF UnhashableId(node_id) THEN "unhashable"
    ELSE IF Skips(node_id, sd, seen) THEN "skip"
    ELSE IF left = 0 THEN "overflow"
    ELSE "enter"

\* the roles line 251 lets through
DisplayRoles == {"user", "assistant", "tool"}

(* The loop over the parts, lines 229-249: [raised, text, images].  A typed  *)
(* text part whose 'text' is null makes  text += None  raise TypeError.      *)
RECURSIVE ConcatParts(_, _, _, _)
ConcatParts(parts, i, text, images) ==
    IF i > Len(parts) THEN [raised |-> FALSE, text |-> text, images |-> images]
    ELSE LET part == parts[i] IN
         IF part.kind = "str"
         THEN ConcatParts(parts, i + 1, text \o part.text, images)
         ELSE IF part.kind = "dict"
         THEN IF part.ctype \in {"text", "audio_transcription"}
              THEN IF part.textnull
                   THEN [raised |-> TRUE, text |-> text, images |-> images]
                   ELSE ConcatParts(parts, i + 1,
                            text \o (IF part.hastext THEN part.text ELSE <<>>),
                            images)
              ELSE IF part.ctype = "image_asset_pointer"
              THEN ConcatParts(parts, i + 1, text \o IMAGE_PLACEHOLDER,
                               Append(images, part.asset_pointer))
              ELSE ConcatParts(parts, i + 1, text, images)
         ELSE ConcatParts(parts, i + 1, text, images)

\* the test of line 251 on the concatenated text and the role
Emits(text, role) == text # <<>> /\ role \in DisplayRoles

\* line 256 without its strip()
MkMsgUntrimmed(node_id, node, text, images) ==
    [id |-> node_id, role |-> node.role, content |-> text,
     timestamp |-> node.created_at, has_images |-> images # <<>>,
     images |-> images]

(* The message built at lines 252-265.  has_images: the message has the key  *)
(* 'images' (lines 261-262); images is then the list, and <<>> otherwise.    *)
MkMsg(node_id, node, text, images) ==
    [id |-> node_id, role |-> node.role, content |-> Strip(text),
     timestamp |-> node.created_at, has_images |-> images # <<>>,
     images |-> images]

(* Lines 220-266 for one node: [raised, messages].  'content' in node raises *)
(* TypeError for a node that is no object, 'content' in node['content'] for  *)
(* a null content, author.get (line 226) AttributeError for a null author,   *)
(* content_data.get (line 228) for an inner content that is no object, and   *)
(* the loop over parts for null parts.                                       *)
NodeMessages(node_id, node) ==
    IF ~node.isdict THEN [raised |-> TRUE, messages |-> <<>>]
    ELSE IF node.content = "null" THEN [raised |-> TRUE, messages |-> <<>>]
    ELSE IF node.content \notin {"ok", "badinner"}
    THEN [raised |-> FALSE, messages |-> <<>>]
    ELSE IF node.author = "null" THEN [raised |-> TRUE, messages |-> <<>>]
    ELSE IF node.content = "badinner" THEN [raised |-> TRUE, messages |-> <<>>]
    ELSE IF node.partsnull THEN [raised |-> TRUE, messages |-> <<>>]
    ELSE LET c == ConcatParts(node.parts, 1, <<>>, <<>>) IN
         IF c.raised THEN [raised |-> TRUE, messages |-> <<>>]
         ELSE IF Emits(c.text, node.role)
         THEN [raised |-> FALSE,
               messages |-> <<MkMsg(node_id, node, c.text, c.images)>>]
         ELSE [raised |-> FALSE, messages |-> <<>>]

\* line 219 dropped: the set stays as it was
MarkVisitedNot(seen, node_id) == seen

\* the visited set after line 219
MarkVisited(seen, node_id) == seen \cup {node_id}

\* the child's list put in front of the caller's
ExtendInFront(messages, child_messages) == child_messages \o messages

\* line 270: messages.extend(the list the call on the child returned)
Extend(messages, child_messages) == messages \o child_messages

\* line 217 left out: storage_dict[node_id] of line 220 raises KeyError
KeyErrorReturn(seen) == [raised |-> TRUE, messages |-> <<>>, visited |-> seen]

\* line 217: return [] with the visited set as it is
EmptyReturn(seen) == [raised |-> FALSE, messages |-> <<>>, visited |-> seen]

(* Lines 220-269 for one node, up to the first child: under null children    *)
(* the call ends in an exception, that of lines 220-266 or else the          *)
(* TypeError of line 269.                                                    *)
NodeOutcome(node_id, node) ==
    IF node.childrennull THEN [raised |-> TRUE, messages |-> <<>>]
    ELSE NodeMessages(node_id, node)

(* parse_tree_node as a function of its arguments and of left, the calls     *)
(* that can still nest and run to their end, this one included: [raised,     *)
(* messages, visited].  ParseChildren is the loop of lines 269-270 from      *)
(* child i on, in a frame below which left calls can nest.                   *)
RECURSIVE ParseTreeNode(_, _, _, _)
RECURSIVE ParseChildren(_, _, _, _, _)
ParseTreeNode(node_id, sd, seen, left) ==
    LET kind == CallKind(node_id, sd, seen, left) IN
    IF kind = "skip" THEN EmptyReturn(seen)
    ELSE IF kind # "enter"
    THEN [raised |-> TRUE, messages |-> <<>>, visited |-> seen]
    ELSE LET own == NodeOutcome(node_id, sd[node_id]) IN
         IF own.raised
         THEN [raised |-> TRUE, messages |-> <<>>,
               visited |-> MarkVisited(seen, node_id)]
         ELSE ParseChildren(sd[node_id].children, 1, sd,
                  [raised |-> FALSE, messages |-> own.messages,
                   visited |-> MarkVisited(seen, node_id)], left - 1)
ParseChildren(children, i, sd, acc, left) ==
    IF i > Len(children) \/ acc.raised THEN acc
    ELSE LET r == ParseTreeNode(children[i], sd, acc.visited, left) IN
         ParseChildren(children, i + 1, sd,
             [raised |-> r.raised,
              messages |-> IF r.raised THEN <<>> ELSE Extend(acc.messages, r.messages),
              visited |-> r.visited], left)

----------------------------------------------------------------------------
(* Decoding tree.storage, lines 289-299 *)

KeyedStorage(m) == [kind |-> "dict", map |-> m, items |-> <<>>]
FlatStorage(l) == [kind |-> "list", map |-> <<>>, items |-> l]

\* dict item assignment  d[k] = v
DictSet(d, k, v) ==
    [x \in DOMAIN d \cup {k} |-> IF x = k THEN v ELSE d[x]]

(* An element of a flat list is a JSON value: json is "string", "null",      *)
(* "number", "true", "object" or "list"; id is the key the element makes     *)
(* when line 299 uses it as one, and node what line 298 reads from it at a   *)
(* node position.  An object or a list is unhashable: the assignment of line *)
(* 299 raises TypeError.  Any other element is stored as the key.            *)
Unhashable(item) == item.json \in {"object", "list"}

\* the outcome of lines 289-299: the mapping, or raised
Decoded(d) == [raised |-> FALSE, map |-> d]
DecodeRaised == [raised |-> TRUE, map |-> <<>>]

\* the loop with the guard of line 296 off by one: the last pair is lost
RECURSIVE DecodeFlatShort(_, _, _)
DecodeFlatShort(items, i, d) ==
    IF i > Len(items) THEN Decoded(d)
    ELSE IF i + 1 < Len(items)
    THEN IF Unhashable(items[i]) THEN DecodeRaised
         ELSE DecodeFlatShort(items, i + 2, DictSet(d, items[i].id, items[i + 1].node))
    ELSE DecodeFlatShort(items, i + 2, d)

\* the loop of lines 295-299 from (1-based) position i on
RECURSIVE DecodeFlat(_, _, _)
DecodeFlat(items, i, d) ==
    IF i > Len(items) THEN Decoded(d)
    ELSE IF i + 1 <= Len(items)
    THEN IF Unhashable(items[i]) THEN DecodeRaised
         ELSE DecodeFlat(items, i + 2, DictSet(d, items[i].id, items[i + 1].node))
    ELSE DecodeFlat(items, i + 2, d)

\* lines 289-299: raised, or the mapping storage_dict
DecodeStorage(st) ==
    IF st.kind = "dict" THEN Decoded(st.map)
    ELSE IF st.kind = "list" THEN DecodeFlat(st.items, 1, <<>>)
    ELSE Decoded(<<>>)

\* storage_dict when line 301 is reached
StorageDict(st) == DecodeStorage(st).map

----------------------------------------------------------------------------
(* Inputs of one reconstruction *)

(* A node of the storage.  isdict FALSE: the JSON value is no object (null,  *)
(* a number, a string, a list).  content: "absent" no 'content' key;         *)
(* "noinner" an object without an inner 'content'; "null" the key holds      *)
(* null; "ok" an object with an inner 'content' object; "badinner" an object *)
(* whose inner 'content' is null.  author: "object", or "null" when          *)
(* 'author' holds null.  partsnull: 'parts' holds null.  A body is a node    *)
(* without its children.                                                     *)
Body(isdict, content, role, parts, partsnull, created_at) ==
    [isdict |-> isdict, content |-> content, author |-> "object", role |-> role,
     parts |-> parts, partsnull |-> partsnull, created_at |-> created_at]

\* a user node with text "hi"
UserHi == Body(TRUE, "ok", "user", <<StrPart(<<"h", "i">>)>>, FALSE, 2)
\* an assistant node whose only part is whitespace
AssistantBlank == Body(TRUE, "ok", "assistant", <<StrPart(<<Blank>>)>>, FALSE, 1)
\* a system node with text "hi"
SystemHi == Body(TRUE, "ok", "system", <<StrPart(<<"h", "i">>)>>, FALSE, 0)
\* a tool node: " ", an image, an unknown typed part, a number, and a
\* transcription "hi"
ToolImage ==
    Body(TRUE, "ok", "tool",
         <<StrPart(<<Blank>>), ImagePart("file-1"), TypedPart("code", <<"x">>),
           OtherPart, TypedPart("audio_transcription", <<"h", "i">>)>>, FALSE, 3)
\* a user node with parts "hello ", {text: "world"}, shortened to "h ", "w"
UserHelloWorld ==
    Body(TRUE, "ok", "user", <<StrPart(<<"h", Blank>>), TypedPart("text", <<"w">>)>>,
         FALSE, 1)
\* a user node with no parts at all
UserEmpty == Body(TRUE, "ok", "user", <<>>, FALSE, 1)
\* an object without 'content'
NoContent == Body(TRUE, "absent", "unknown", <<>>, FALSE, 0)
\* 'content': null
NullContent == Body(TRUE, "null", "unknown", <<>>, FALSE, 0)
\* 'parts': null
NullParts == Body(TRUE, "ok", "user", <<>>, TRUE, 0)
\* a typed text part whose 'text' is null
NullText == Body(TRUE, "ok", "user", <<NullTextPart("text")>>, FALSE, 0)
\* a node that is no object (null)
NonDict == Body(FALSE, "absent", "unknown", <<>>, FALSE, 0)
\* 'author': null
NullAuthor == [UserHi EXCEPT !.author = "null"]
\* the inner 'content': null
BadInner == Body(TRUE, "badinner", "user", <<>>, FALSE, 0)
\* an assistant node: an image, "x", a number, and a second image
TwoImages ==
    Body(TRUE, "ok", "assistant",
         <<ImagePart("file-2"), StrPart(<<"x">>), OtherPart, ImagePart("file-1")>>,
         FALSE, 4)

\* every way lines 220-266 can end
TreeBodies ==
    {UserHi, AssistantBlank, SystemHi, ToolImage, TwoImages, UserHelloWorld,
     UserEmpty, NoContent, NullContent, NullParts, NullText, NonDict, NullAuthor,
     BadInner}

\* the bodies put on every shape of tree
ShapeBodies == {UserHi, AssistantBlank, NoContent, NonDict}

\* childrennull: 'children' holds null (WithNullChildren)
WithChildren(body, children) ==
    [isdict |-> body.isdict, content |-> body.content, author |-> body.author,
     role |-> body.role, parts |-> body.parts, partsnull |-> body.partsnull,
     created_at |-> body.created_at, children |-> children,
     childrennull |-> FALSE]

WithNullChildren(body) == [WithChildren(body, <<>>) EXCEPT !.childrennull = TRUE]

SeqsUpTo(S, n) == UNION {[1..k -> S] : k \in 0..n}

\* what a mapping holds for one id: nothing, or a node
AbsentOpt == [present |-> FALSE, node |-> WithChildren(NonDict, <<>>)]
PresentOpt(n) == [present |-> TRUE, node |-> n]
Used(o) == IF o.present THEN Len(o.node.children) ELSE 0
MappingOf(opts) == [k \in {x \in DOMAIN opts : opts[x].present} |-> opts[k].node]

\* an absent id, or a body of ShapeBodies with at most n child references
ShapeOpts(n) ==
    {AbsentOpt} \cup
    {PresentOpt(WithChildren(b, c)) : b \in ShapeBodies, c \in SeqsUpTo(Ids, n)}

\* the bodies put on the trees of two nodes
ChainIds == {"a", "b"}
BodyOpts ==
    {AbsentOpt} \cup
    {PresentOpt(WithChildren(b, c)) : b \in TreeBodies, c \in SeqsUpTo(Ids, 1)}

\* nodes of the flat lists: a body with at most one child reference
FlatNodes == { WithChildren(b, c) : b \in {UserHi, NonDict}, c \in SeqsUpTo(Ids, 1) }

\* elements of a flat list: a JSON string (an id), a JSON object (a node),
\* null, the number 1, true, and a list
NoNode == WithChildren(NonDict, <<>>)
JId(x) == [json |-> "string", id |-> x, node |-> NoNode]
JNode(n) == [json |-> "object", id |-> ObjectId, node |-> n]
JNull == [json |-> "null", id |-> NullId, node |-> NoNode]
JOne == [json |-> "number", id |-> NumberId, node |-> NoNode]
JTrue == [json |-> "true", id |-> NumberId, node |-> NoNode]
JList == [json |-> "list", id |-> ObjectId, node |-> NoNode]

(* A path of n nodes a -> b -> c ..., each with a Message; the last node     *)
(* lists the children last.                                                  *)
DeepIds ==
    <<"a", "b", "c", "d", "e", "f", "g", "h", "i", "j", "k", "l", "m", "n", "o", "p",
      "q", "r">>
DeepChain(n, last) ==
    [id \in {DeepIds[i] : i \in 1..n} |->
        LET i == CHOOSE j \in 1..n : DeepIds[j] = id IN
        WithChildren(UserHi, IF i < n THEN <<DeepIds[i + 1]>> ELSE last)]

\* the flat list [ids[1], nodes[1], ids[2], nodes[2], ...] of n elements
FlatListOf(n, ids, nodes) ==
    [i \in 1..n |-> IF i % 2 = 1 THEN JId(ids[(i + 1) \div 2])
                                 ELSE JNode(nodes[i \div 2])]

----------------------------------------------------------------------------
(* SpecTree: one reconstruction, step by step *)

\* the locals of one call after line 266: the children still to call from
\* position i on (lines 268-270) and the messages gathered so far
Frame(node_id, children, msgs) ==
    [node_id |-> node_id, children |-> children, i |-> 1, messages |-> msgs]

\* the extractor as __init__ leaves it (lines 76-87), over an empty directory
ExtractorReady ==
    /\ conversations = <<>>
    /\ file_hashes = <<>>
    /\ extraction_stats =
         [total_files |-> 0, processed_files |-> 0, failed_files |-> 0,
          total_conversations |-> 0, total_messages |-> 0, errors |-> <<>>]
    /\ returned = <<>>
    /\ calls = <<>>

TreeReadyIn(r) ==
    /\ dir = <<>>
    /\ tz = UTC
    /\ dir_state = "readable"
    /\ room = r
    /\ ExtractorReady
    /\ root_id = "a"
    /\ storage_dict = <<>>
    /\ visited = {}
    /\ stack = <<>>
    /\ result = <<>>
    /\ status = "init"
    /\ entered = <<>>

\* the walk as main has it made
TreeReady == TreeReadyIn(DefaultRoom)

\* every shape of tree (cycles, shared, absent and repeated children) with at
\* most MaxEdges child references in all, over ShapeBodies
InitShape ==
    /\ \E oa \in ShapeOpts(MaxEdges) :
         \E ob \in ShapeOpts(MaxEdges - Used(oa)) :
           \E oc \in ShapeOpts(MaxEdges - Used(oa) - Used(ob)) :
             storage = KeyedStorage(MappingOf("a" :> oa @@ "b" :> ob @@ "c" :> oc))
    /\ TreeReady

\* every body of TreeBodies on the trees of two nodes
InitBody ==
    /\ \E o \in [ChainIds -> BodyOpts] : storage = KeyedStorage(MappingOf(o))
    /\ TreeReady

\* lists with an object or a list where an id is expected, in the first
\* pair, after a good pair, and as the unpaired last element
Keyless ==
    {<<JNode(WithChildren(UserHi, <<"b">>)), JNode(WithChildren(UserHi, <<>>))>>,
     <<JId("a"), JNode(WithChildren(UserHi, <<"b">>)),
       JNode(WithChildren(UserHi, <<>>)), JNode(WithChildren(UserHi, <<"a">>))>>,
     <<JId("a"), JNode(WithChildren(UserHi, <<"b">>)),
       JNode(WithChildren(UserHi, <<>>))>>,
     <<JId("a"), JNode(WithChildren(UserHi, <<"b">>)),
       JList, JNode(WithChildren(UserHi, <<>>))>>}

(* Lists with null, 1 or true where an id is expected: ["a", node, null,     *)
(* node] with the node of null a child of a; the same with 1 and true, which *)
(* make one key; null in the first pair; and null and 1 at node positions.   *)
OddKeys ==
    {<<JId("a"), JNode(WithChildren(UserHi, <<NullId>>)),
       JNull, JNode(WithChildren(UserHelloWorld, <<>>))>>,
     <<JId("a"), JNode(WithChildren(UserHi, <<NumberId, "b">>)),
       JOne, JNode(WithChildren(UserHelloWorld, <<>>)),
       JTrue, JNode(WithChildren(ToolImage, <<NullId>>))>>,
     <<JNull, JNode(WithChildren(ToolImage, <<"a">>)),
       JId("a"), JNode(WithChildren(UserHi, <<"b", NullId>>))>>,
     <<JTrue, JNode(WithChildren(UserHi, <<>>)), JNull>>,
     <<JId("a"), JNull, JId("b"), JOne>>}

\* flat lists [id, node, id, node, ...] of at most MaxFlat elements; one of
\* odd length ends in an id that has no node after it; and the lists Keyless
\* and OddKeys
InitFlat ==
    /\ \/ \E n \in 0..MaxFlat :
            \E ids \in [1..((n + 1) \div 2) -> Ids], nodes \in [1..(n \div 2) -> FlatNodes] :
              storage = FlatStorage(FlatListOf(n, ids, nodes))
       \/ \E l \in Keyless \cup OddKeys : storage = FlatStorage(l)
    /\ TreeReady

\* the bodies lines 223-266 gather no Message for
SilentBodies == {SystemHi, UserEmpty, NoContent}

\* two nodes without a Message above a third node
InitSilent ==
    /\ \E x \in SilentBodies, y \in SilentBodies, z \in {UserHi, ToolImage, SystemHi} :
         \E ca \in {<<"b">>, <<"b", "c">>, <<"c", "b">>},
            cb \in {<<>>, <<"c">>, <<"a", "c">>} :
           storage = KeyedStorage("a" :> WithChildren(x, ca) @@ "b" :> WithChildren(y, cb)
                                  @@ "c" :> WithChildren(z, <<>>))
    /\ TreeReady

(* Four nodes: a lists b and d, b lists c, and c and d may list each other,  *)
(* so that the call on an earlier child gives two Messages.                  *)
InitOrder ==
    /\ \E ca \in {<<"b", "d">>, <<"d", "b">>}, cc \in {<<>>, <<"d">>},
          cd \in {<<>>, <<"c">>}, y \in {UserHelloWorld, SystemHi} :
         storage = KeyedStorage("a" :> WithChildren(UserHi, ca)
                             @@ "b" :> WithChildren(y, <<"c">>)
                             @@ "c" :> WithChildren(TwoImages, cc)
                             @@ "d" :> WithChildren(ToolImage, cd))
    /\ TreeReady

(* Children that are no list of strings: an object among the children, null  *)
(* for the children, under a node with a Message and under a silent one.     *)
OddChildren ==
    {"a" :> WithChildren(x, <<"b", ObjectId, "c">>) @@ "b" :> WithChildren(UserHi, <<>>)
        @@ "c" :> WithChildren(UserHi, <<>>) : x \in {UserHi, NoContent}} \cup
    {"a" :> WithChildren(x, <<"b", "c">>) @@ "b" :> WithNullChildren(y)
        @@ "c" :> WithChildren(UserHi, <<>>) : x \in {UserHi, NoContent},
                                                 y \in {UserHi, NoContent}} \cup
    {"a" :> WithNullChildren(UserHi)}

InitOdd ==
    /\ \E m \in OddChildren : storage = KeyedStorage(m)
    /\ TreeReady

(* A path as long as the room, and one node longer, the last node without    *)
(* children or listing the first or a missing id.                            *)
InitDeep ==
    /\ \E n \in {SmallRoom, SmallRoom + 1}, last \in {<<>>, <<"a">>, <<"z">>} :
         storage = KeyedStorage(DeepChain(n, last))
    /\ TreeReadyIn(SmallRoom)

InitTree == InitShape \/ InitBody \/ InitFlat \/ InitSilent \/ InitOrder
                \/ InitOdd \/ InitDeep

(* The outermost call: lines 289-299 decode the storage, line 309 calls      *)
(* parse_tree_node(root_id, storage_dict) with a fresh visited set.  When    *)
(* line 299 raises, parse_tree_node is not called: status "undecoded".  The  *)
(* frames of the stack are calls that run: room - Len(stack) more can.       *)
Enter(node_id, sd) ==
    LET own == NodeOutcome(node_id, sd[node_id]) IN
    /\ visited' = MarkVisited(visited, node_id)
    /\ entered' = Append(entered, node_id)
    /\ IF own.raised
       THEN /\ status' = "raised"
            /\ stack' = <<>>
       ELSE /\ status' = "walking"
            /\ stack' = Append(stack, Frame(node_id, sd[node_id].children, own.messages))

Start ==
    /\ status = "init"
    /\ storage_dict' = StorageDict(storage)
    /\ IF DecodeStorage(storage).raised
       THEN /\ status' = "undecoded"
            /\ UNCHANGED <<visited, stack, entered>>
       ELSE LET kind == CallKind(root_id, storage_dict', {}, room) IN
            IF kind = "skip"
            THEN /\ status' = "returned"
                 /\ UNCHANGED <<visited, stack, entered>>
            ELSE IF kind # "enter"
            THEN /\ status' = "raised"
                 /\ UNCHANGED <<visited, stack, entered>>
            ELSE Enter(root_id, storage_dict')
    /\ UNCHANGED <<storage, root_id, result>>
    /\ UNCHANGED extractor_vars

Top == stack[Len(stack)]

Advance(s) == [s EXCEPT ![Len(s)].i = @ + 1]

\* line 270 on a child the guard of line 216 turns away: the call returns []
SkipChild ==
    /\ status = "walking"
    /\ Top.i <= Len(Top.children)
    /\ CallKind(Top.children[Top.i], storage_dict, visited, room - Len(stack)) = "skip"
    /\ stack' = Advance(stack)
    /\ UNCHANGED <<storage, root_id, storage_dict, visited, result, status, entered>>
    /\ UNCHANGED extractor_vars

(* Line 270 on a child line 217 does not turn away: line 216 or line 219     *)
(* raises, or lines 219-268 run in the new frame.                            *)
VisitChild ==
    /\ status = "walking"
    /\ Top.i <= Len(Top.children)
    /\ LET child == Top.children[Top.i]
           kind == CallKind(child, storage_dict, visited, room - Len(stack)) IN
       /\ kind # "skip"
       /\ IF kind # "enter"
          THEN /\ status' = "raised"
               /\ stack' = <<>>
               /\ UNCHANGED <<visited, entered>>
          ELSE LET own == NodeOutcome(child, storage_dict[child]) IN
               /\ visited' = MarkVisited(visited, child)
               /\ entered' = Append(entered, child)
               /\ IF own.raised
                  THEN /\ status' = "raised"
                       /\ stack' = <<>>
                  ELSE /\ status' = status
                       /\ stack' = Append(Advance(stack),
                                          Frame(child, storage_dict[child].children,
                                                own.messages))
    /\ UNCHANGED <<storage, root_id, storage_dict, result>>
    /\ UNCHANGED extractor_vars

\* line 272: the innermost call returns; its caller extends its own list
Return ==
    /\ status = "walking"
    /\ Top.i > Len(Top.children)
    /\ IF Len(stack) = 1
       THEN /\ result' = Top.messages
            /\ status' = "returned"
            /\ stack' = <<>>
       ELSE /\ stack' = [SubSeq(stack, 1, Len(stack) - 1)
                            EXCEPT ![Len(stack) - 1].messages = Extend(@, Top.messages)]
            /\ UNCHANGED <<result, status>>
    /\ UNCHANGED <<storage, root_id, storage_dict, visited, entered>>
    /\ UNCHANGED extractor_vars

NextTree == Start \/ SkipChild \/ VisitChild \/ Return

SpecTree == InitTree /\ [][NextTree]_vars /\ WF_vars(NextTree)

----------------------------------------------------------------------------
(* Properties of one reconstruction *)

Halted == status \in {"returned", "raised", "undecoded"}

\* the ids a list of children names that are keys of the mapping
ChildKeys(n, sd) ==
    IF sd[n].isdict
    THEN {sd[n].children[i] : i \in 1..Len(sd[n].children)} \cap DOMAIN sd
    ELSE {}

RECURSIVE Closure(_, _)
Closure(S, sd) ==
    LET T == S \cup UNION {ChildKeys(n, sd) : n \in S} IN
    IF T = S THEN S ELSE Closure(T, sd)

\* the keys reachable from n through one or more child references
Descendants(n, sd) == Closure(ChildKeys(n, sd), sd)

\* n references itself or an ancestor
OnCycle(n, sd) == n \in Descendants(n, sd)

RECURSIVE SumOver(_, _)
SumOver(f, S) ==
    IF S = {} THEN 0
    ELSE LET x == CHOOSE y \in S : TRUE IN f[x] + SumOver(f, S \ {x})

MaxOf(S) == IF S = {} THEN 0 ELSE CHOOSE x \in S : \A y \in S : y <= x

Keys == IF status = "init" THEN DOMAIN StorageDict(storage) ELSE DOMAIN storage_dict

\* the children the frames on the stack have still to call
OpenCalls ==
    SumOver([k \in 1..Len(stack) |-> Len(stack[k].children) + 1 - stack[k].i],
            1..Len(stack))

\* more than any node's number of children
Weight ==
    2 + MaxOf({Len(StorageDict(storage)[k].children) : k \in DOMAIN StorageDict(storage)})

(* A natural number every step of the walk makes smaller: the keys not yet   *)
(* visited, weighted, plus the calls still open.                             *)
Variant ==
    Weight * Cardinality(Keys \ visited) + OpenCalls + Len(stack)
        + (IF status = "init" THEN 1 ELSE 0)

(* C1: for every finite storage mapping and start id, cycles among the       *)
(* children included, parse_tree_node terminates: the walk reaches a state   *)
(* where the outermost call has ended, and every step lowers Variant, a      *)
(* natural number.                                                           *)
C1_Terminates == <>Halted /\ [][Variant' < Variant]_vars

\* the walk has returned although a visited node lies on a cycle
C1_Witness ==
    /\ status = "returned"
    /\ \E n \in visited : OnCycle(n, storage_dict)

NoRepeat(seq) == \A i, j \in 1..Len(seq) : seq[i] = seq[j] => i = j

MsgIds(msgs) == [k \in 1..Len(msgs) |-> msgs[k].id]

\* the messages accumulated so far, outer frames first
RECURSIVE Accumulated(_)
Accumulated(st) ==
    IF st = <<>> THEN <<>>
    ELSE Accumulated(SubSeq(st, 1, Len(st) - 1)) \o st[Len(st)].messages

(* C2: in one call of parse_tree_node each node id is processed at most      *)
(* once, and the returned sequence (and every partial accumulation) holds    *)
(* no two Messages with the same id.                                         *)
C2_VisitedOnce ==
    /\ NoRepeat(entered)
    /\ NoRepeat(MsgIds(Accumulated(stack)))
    /\ NoRepeat(MsgIds(result))

\* the walk has returned a Message of a node that two other visited nodes
\* list as their child, and a visited node lies on a cycle
C2_Witness ==
    /\ status = "returned"
    /\ \E n \in visited :
         /\ \E k \in 1..Len(result) : result[k].id = n
         /\ \E p, q \in visited \ {n} :
              /\ p # q
              /\ n \in ChildKeys(p, storage_dict)
              /\ n \in ChildKeys(q, storage_dict)
    /\ \E n \in visited : OnCycle(n, storage_dict)

(* C3: reconstruction never raises: whatever the mapping and the start id,   *)
(* parse_tree_node returns a Message sequence and never ends in an           *)
(* exception.                                                                *)
C3_NeverRaises == status # "raised"

Displayable(m) == m.content # <<>> /\ m.role \in DisplayRoles

(* C4: every Message parse_tree_node returns has non-empty content and a     *)
(* role in {user, assistant, tool}.                                          *)
C4_ReturnedDisplayable ==
    \A k \in 1..Len(result) : Displayable(result[k])

\* the keyed mapping a flat list of pairs stands for: each id that heads a
\* pair, with the node of its last pair
PairHeads(items) == {i \in 1..Len(items) : i % 2 = 1 /\ i + 1 <= Len(items)}
KeyedOfPairs(items) ==
    [k \in {items[i].id : i \in PairHeads(items)} |->
        items[MaxOf({i \in PairHeads(items) : items[i].id = k}) + 1].node]

\* a flat list without the unpaired last element of an odd-length list
Paired(items) ==
    IF Len(items) % 2 = 1 THEN SubSeq(items, 1, Len(items) - 1) ELSE items

\* a flat list [id_0, node_0, id_1, node_1, ...]: a string heads every pair
Alternating(items) == \A i \in PairHeads(items) : items[i].json = "string"

(* C7: a flat alternating storage list and the keyed mapping of its pairs    *)
(* give the same reconstruction from the same start id; the last element of  *)
(* an odd-length list is ignored.                                            *)
C7_FlatEqualsKeyed ==
    (storage.kind = "list" /\ Alternating(storage.items) /\ status # "init") =>
        LET keyed == ParseTreeNode(root_id, KeyedOfPairs(Paired(storage.items)), {},
                                   room) IN
        /\ status # "undecoded"
        /\ storage_dict = KeyedOfPairs(Paired(storage.items))
        /\ storage_dict = StorageDict(FlatStorage(Paired(storage.items)))
        /\ status = "raised" => keyed.raised
        /\ status = "returned" => ~keyed.raised /\ result = keyed.messages

\* an odd-length flat list with pairs of two ids has been walked and gave at
\* least two Messages
C7_Witness ==
    /\ storage.kind = "list"
    /\ Len(storage.items) % 2 = 1
    /\ \E i, j \in PairHeads(storage.items) : storage.items[i].id # storage.items[j].id
    /\ status = "returned"
    /\ Len(result) >= 2

----------------------------------------------------------------------------
(* extract_conversation, lines 274-340 *)

(* A document.  valid FALSE: json.load raises (the file is no JSON).  The    *)
(* three id fields hold "" when the key is absent or empty.  open_error is   *)
(* "" for a file that can be opened, see Unopenable.  configuration is the   *)
(* JSON kind of the value of 'configuration': "object", or "absent", "null", *)
(* "string", see WithConfiguration.  The id fields hold strings and          *)
(* creation_date holds a number.                                             *)
MkDoc(valid, st, root_node_id, current_node_id, current_leaf_node_id, creation_date) ==
    [valid |-> valid, open_error |-> "",
     storage |-> st, root_node_id |-> root_node_id,
     current_node_id |-> current_node_id,
     current_leaf_node_id |-> current_leaf_node_id,
     creation_date |-> creation_date,
     configuration |-> "object"]

\* the document with another value of 'configuration'
WithConfiguration(doc, kind) == [doc EXCEPT !.configuration = kind]

(* A directory entry *.json that open() fails on: a directory ("EISDIR"), a  *)
(* symbolic link that points nowhere ("ENOENT"), a file the process may not  *)
(* read ("EACCES").                                                          *)
OpenErrors == {"EISDIR", "ENOENT", "EACCES"}
Unopenable(err) ==
    [valid |-> FALSE, open_error |-> err,
     storage |-> [kind |-> "dict", map |-> <<>>, items |-> <<>>],
     root_node_id |-> "", current_node_id |-> "", current_leaf_node_id |-> "",
     creation_date |-> 0, configuration |-> "absent"]

(* FileHasher.md5_file (lines 57-66): the digest, a value fixed by the       *)
(* bytes; when the file cannot be opened, the string "ERROR: " and the       *)
(* exception (lines 65-66).                                                  *)
Md5File(doc) ==
    IF doc.open_error = "" THEN <<"md5", doc>> ELSE <<"ERROR: ", doc.open_error>>

\* a field that names no key of the mapping is passed over like an unset one
ResolveRootAmongKeys(doc) ==
    LET keys == DOMAIN StorageDict(doc.storage) IN
    IF doc.root_node_id \in keys THEN doc.root_node_id
    ELSE IF doc.current_node_id \in keys THEN doc.current_node_id
    ELSE doc.current_leaf_node_id

\* the three fields tried in the opposite order
ResolveRootLeafFirst(doc) ==
    IF doc.current_leaf_node_id # "" THEN doc.current_leaf_node_id
    ELSE IF doc.current_node_id # "" THEN doc.current_node_id
    ELSE doc.root_node_id

\* lines 301-307: "" stands for no start id (return None)
ResolveRoot(doc) ==
    IF doc.root_node_id # "" THEN doc.root_node_id
    ELSE IF doc.current_node_id # "" THEN doc.current_node_id
    ELSE doc.current_leaf_node_id

(* list.sort(key=...) is stable: built by insertion, each element going      *)
(* behind every element whose key is not greater than its own.               *)
RECURSIVE InsertByTimestamp(_, _)
InsertByTimestamp(sorted, x) ==
    IF sorted = <<>> THEN <<x>>
    ELSE IF x.timestamp < sorted[Len(sorted)].timestamp
         THEN Append(InsertByTimestamp(SubSeq(sorted, 1, Len(sorted) - 1), x),
                     sorted[Len(sorted)])
         ELSE Append(sorted, x)

RECURSIVE SortPrefixByTimestamp(_, _)
SortPrefixByTimestamp(messages, n) ==
    IF n = 0 THEN <<>>
    ELSE InsertByTimestamp(SortPrefixByTimestamp(messages, n - 1), messages[n])

\* line 310 left out
SortUnsorted(messages) == messages

\* line 310: messages.sort(key=lambda x: x['timestamp'])
SortByTimestamp(messages) == SortPrefixByTimestamp(messages, Len(messages))

\* the test of line 311 on one message
Kept(m) == m.content # <<>> /\ m.role \in {"user", "assistant", "tool"}

\* line 311 left out
FilterNothing(messages) == messages

\* line 311
FilterDisplay(messages) == SelectSeq(messages, Kept)

\* lines 313-314 left out
NoMessagesNever(messages) == FALSE

\* the test of line 313: not messages
NoMessages(messages) == messages = <<>>

CountRole(messages, role) ==
    Cardinality({k \in 1..Len(messages) : messages[k].role = role})

(* Line 327, data.get('configuration', {}).get('last_model', 'unknown'): the *)
(* second get is called on the value of 'configuration', or on {} when the   *)
(* key is absent; a value that is no object has no get (AttributeError).     *)
ConfigurationRaises(doc) == doc.configuration \notin {"absent", "object"}

(* Lines 318-332: raised, or conv = <<the record>>.                          *)
MkRecord(json_file, doc, hashes, messages) ==
    IF ConfigurationRaises(doc) THEN [raised |-> TRUE, conv |-> <<>>]
    ELSE [raised |-> FALSE,
          conv |-> <<[file |-> json_file,
                      file_hash |-> IF json_file \in DOMAIN hashes THEN hashes[json_file]
                                    ELSE <<"Not computed">>,
                      creation_date |-> doc.creation_date,
                      messages |-> messages,
                      message_count |-> Len(messages),
                      user_message_count |-> CountRole(messages, "user"),
                      assistant_message_count |-> CountRole(messages, "assistant")]>>]

\* the except branch without line 335
FailedUncounted(hashes, stats, json_file) ==
    [file_hashes |-> hashes,
     extraction_stats |-> [stats EXCEPT !.errors = Append(@, json_file)],
     conv |-> <<>>]

\* lines 334-340: the except branch
Failed(hashes, stats, json_file) ==
    [file_hashes |-> hashes,
     extraction_stats |-> [stats EXCEPT !.failed_files = @ + 1,
                                        !.errors = Append(@, json_file)],
     conv |-> <<>>]

(* What open(json_file) meets (lines 59 and 286), by the state of the        *)
(* directory the path lies in: "readable"; "missing", there is no such       *)
(* directory; "unreadable", the process may neither list nor enter it (mode  *)
(* 000); "unlistable", it may enter the directory and not list it (mode      *)
(* 0300).  files maps the names in the directory to their documents.         *)
Opened(state, files, json_file) ==
    IF state = "missing" THEN Unopenable("ENOENT")
    ELSE IF state = "unreadable" THEN Unopenable("EACCES")
    ELSE IF json_file \notin DOMAIN files THEN Unopenable("ENOENT")
    ELSE files[json_file]

(* extract_conversation as a function of the extractor's state and the file: *)
(* the new file_hashes and extraction_stats, and conv, <<>> for None or      *)
(* <<record>>.  The except branch is reached from the open of line 286, from *)
(* json.load, from line 299, from parse_tree_node, and, after line 316 has   *)
(* counted the messages, from line 327.  The call is made where the document *)
(* can be hashed and loaded: the room at line 309 is LoadRoom + spare, spare *)
(* a natural number.                                                         *)
ExtractOne(hashes, stats, json_file, doc, compute_hash, spare) ==
    LET stats1 == [stats EXCEPT !.processed_files = @ + 1]
        hashes1 == IF compute_hash THEN DictSet(hashes, json_file, Md5File(doc))
                   ELSE hashes
    IN  IF doc.open_error # "" THEN Failed(hashes1, stats1, json_file)
        ELSE IF ~doc.valid THEN Failed(hashes1, stats1, json_file)
        ELSE
        LET dec == DecodeStorage(doc.storage)
            sd == dec.map
            root == ResolveRoot(doc)
        IN  IF dec.raised THEN Failed(hashes1, stats1, json_file)
            ELSE IF root = ""
            THEN [file_hashes |-> hashes1, extraction_stats |-> stats1, conv |-> <<>>]
            ELSE
            LET walk == ParseTreeNode(root, sd, {}, LoadRoom + spare) IN
            IF walk.raised THEN Failed(hashes1, stats1, json_file)
            ELSE
            LET messages == FilterDisplay(SortByTimestamp(walk.messages)) IN
            IF NoMessages(messages)
            THEN [file_hashes |-> hashes1, extraction_stats |-> stats1, conv |-> <<>>]
            ELSE
            LET stats2 == [stats1 EXCEPT !.total_messages = @ + Len(messages)]
                rec == MkRecord(json_file, doc, hashes1, messages)
            IN  IF rec.raised THEN Failed(hashes1, stats2, json_file)
                ELSE [file_hashes |-> hashes1, extraction_stats |-> stats2,
                      conv |-> rec.conv]

----------------------------------------------------------------------------
(* extract_all, lines 342-369 *)

(* A datetime: the days since 2001-01-01 and the seconds into the day.       *)
(* cocoa_to_datetime (lines 371-377): 0 gives the epoch itself; any other    *)
(* timestamp is added to the instant of the local midnight of 2001-01-01     *)
(* and the sum is read on the local clock (datetime.fromtimestamp), which    *)
(* stands Shift(zone, cocoa_timestamp) seconds further on than a clock kept  *)
(* at the time of 2001-01-01.                                                *)
CocoaToDatetime(cocoa_timestamp, zone) ==
    IF cocoa_timestamp = 0 THEN [day |-> 0, sec |-> 0]
    ELSE LET s == (cocoa_timestamp % SecondsPerDay) + Shift(zone, cocoa_timestamp)
         IN  [day |-> (cocoa_timestamp \div SecondsPerDay) + (s \div SecondsPerDay),
              sec |-> s % SecondsPerDay]

\* datetime.strptime(s, '%Y-%m-%d') (lines 898, 906): midnight of that day
Midnight(day) == [day |-> day, sec |-> 0]

\* datetime < datetime
DtLess(x, y) == x.day < y.day \/ (x.day = y.day /\ x.sec < y.sec)

(* Lines 354-359: TRUE when the record is skipped.  A bound is <<>> for None *)
(* or <<datetime>>.                                                          *)
DateSkips(conv, date_from, date_to) ==
    /\ date_from # <<>> \/ date_to # <<>>
    /\ LET conv_date == CocoaToDatetime(conv.creation_date, tz) IN
       \/ date_from # <<>> /\ DtLess(conv_date, date_from[1])
       \/ date_to # <<>> /\ DtLess(date_to[1], conv_date)

(* reverse=True keeps the sort stable: each record goes behind every record  *)
(* whose creation_date is not smaller than its own.                          *)
RECURSIVE InsertByCreationDesc(_, _)
InsertByCreationDesc(sorted, x) ==
    IF sorted = <<>> THEN <<x>>
    ELSE IF x.creation_date > sorted[Len(sorted)].creation_date
         THEN Append(InsertByCreationDesc(SubSeq(sorted, 1, Len(sorted) - 1), x),
                     sorted[Len(sorted)])
         ELSE Append(sorted, x)

RECURSIVE SortPrefixByCreationDesc(_, _)
SortPrefixByCreationDesc(convs, n) ==
    IF n = 0 THEN <<>>
    ELSE InsertByCreationDesc(SortPrefixByCreationDesc(convs, n - 1), convs[n])

\* line 363 left out
SortNone(convs) == convs

\* line 363: conversations.sort(key=creation_date, reverse=True)
SortByCreationDesc(convs) == SortPrefixByCreationDesc(convs, Len(convs))

\* the loop of lines 350-361 over json_files from position i on
RECURSIVE ExtractLoop(_, _, _, _, _, _)
ExtractLoop(json_files, i, acc, date_from, date_to, compute_hashes) ==
    IF i > Len(json_files) THEN acc
    ELSE LET r == ExtractOne(acc.file_hashes, acc.extraction_stats, json_files[i],
                             Opened(dir_state, dir, json_files[i]), compute_hashes,
                             room - LoadRoom)
             keep == r.conv # <<>> /\ ~DateSkips(r.conv[1], date_from, date_to)
         IN  ExtractLoop(json_files, i + 1,
                 [file_hashes |-> r.file_hashes,
                  extraction_stats |-> r.extraction_stats,
                  conversations |-> IF keep THEN acc.conversations \o r.conv
                                    ELSE acc.conversations],
                 date_from, date_to, compute_hashes)

----------------------------------------------------------------------------
(* Inputs of the extractor *)

Files == {"f1.json", "f2.json"}

Times == {100, 200, 300}

Timed(body, t) == [body EXCEPT !.created_at = t]

AssistantHi == Body(TRUE, "ok", "assistant", <<StrPart(<<"h", "i">>)>>, FALSE, 2)
ToolHi == Body(TRUE, "ok", "tool", <<StrPart(<<"h", "i">>)>>, FALSE, 2)

\* a user node with an assistant and a tool child, at every choice of times
TimedStorages ==
    { KeyedStorage("a" :> WithChildren(Timed(UserHi, ta), <<"b", "c">>)
                @@ "b" :> WithChildren(Timed(AssistantHi, tb), <<>>)
                @@ "c" :> WithChildren(Timed(ToolHi, tc), <<>>)) :
        ta \in Times, tb \in Times, tc \in Times }

\* storages of two nodes a -> b -> a, keyed and flat: every body above a
\* node with a Message, a whitespace-only, a silent and a malformed one
PairStorages ==
    UNION { { KeyedStorage("a" :> WithChildren(x, <<"b">>) @@ "b" :> WithChildren(y, <<"a">>)),
              FlatStorage(<<JId("a"), JNode(WithChildren(x, <<"b">>)),
                            JId("b"), JNode(WithChildren(y, <<"a">>)), JId("c")>>) } :
            x \in TreeBodies, y \in {UserHi, AssistantBlank, SystemHi, NonDict} }

\* creation dates: the epoch (2001-01-01 00:00:00), 2001-01-02 at 00:00:00
\* and at 01:00:00, and 2001-01-03 00:00:00
CreationDates == {0, SecondsPerDay, SecondsPerDay + 3600, 2 * SecondsPerDay}

\* a file that is no JSON
Unparseable == MkDoc(FALSE, KeyedStorage(<<>>), "", "", "", 0)

\* a document without tree.storage (line 290 fails): the mapping stays {}
NoStorage == [kind |-> "absent", map |-> <<>>, items |-> <<>>]

\* two nodes without children, each a tree of its own; "c" is no key
TwoRoots == KeyedStorage("a" :> WithChildren(UserHi, <<>>)
                      @@ "b" :> WithChildren(AssistantHi, <<>>))

\* what an id field of a document holds: nothing (""), or an id
StartIds == {"", "a", "b", "c"}

\* storages that decode to the empty mapping
EmptyStorages ==
    {NoStorage, KeyedStorage(<<>>), FlatStorage(<<>>), FlatStorage(<<JId("a")>>)}

\* every setting of the three id fields over TwoRoots, and the empty mappings
RootDocs ==
    {MkDoc(TRUE, TwoRoots, r, c, l, 0) : r \in StartIds, c \in StartIds, l \in StartIds}
    \cup {MkDoc(TRUE, st, "a", "", "", 0) : st \in EmptyStorages}

OneMessage == KeyedStorage("a" :> WithChildren(UserHi, <<"b">>)
                        @@ "b" :> WithChildren(AssistantBlank, <<>>))
BrokenNode == KeyedStorage("a" :> WithChildren(UserHi, <<"b">>)
                        @@ "b" :> WithChildren(NonDict, <<>>))
OnlyBlank == KeyedStorage("a" :> WithChildren(AssistantBlank, <<>>))

(* Documents with a message and every kind of 'configuration', one without   *)
(* a display-eligible message and 'configuration': null, the documents whose *)
(* flat list has an object, a list, null, 1 or true where an id is expected, *)
(* and those with children that are no list of strings.                      *)
OddDocs ==
    {WithConfiguration(MkDoc(TRUE, OneMessage, "a", "", "", 0), k) :
        k \in {"absent", "null", "string"}} \cup
    {WithConfiguration(MkDoc(TRUE, OnlyBlank, "a", "", "", 0), "null")} \cup
    {MkDoc(TRUE, FlatStorage(l), "a", "", "", 0) : l \in Keyless \cup OddKeys} \cup
    {MkDoc(TRUE, KeyedStorage(m), "a", "", "", 0) : m \in OddChildren}

\* a document whose nodes are one path of n nodes from the start id
DeepDoc(n) == MkDoc(TRUE, KeyedStorage(DeepChain(n, <<>>)), "a", "", "", 0)

\* the documents a directory of one file is drawn from
RichDocs ==
    {Unparseable} \cup {Unopenable(e) : e \in OpenErrors} \cup RootDocs \cup
    {MkDoc(TRUE, st, "a", "", "", 0) : st \in TimedStorages \cup PairStorages} \cup
    OddDocs

\* the documents a directory of two files is drawn from
DirDocs ==
    {Unparseable, Unopenable("EISDIR")} \cup
    {MkDoc(TRUE, OneMessage, "a", "", "", cd) : cd \in CreationDates} \cup
    {MkDoc(TRUE, st, "a", "", "", SecondsPerDay + 3600) :
        st \in {BrokenNode, OnlyBlank}}

(* Creation dates in summer, on a clock that is never shifted: 2001-07-01    *)
(* 23:30:00, 2002-07-01 23:30:00 and 2024-06-13 19:33:20.                    *)
SummerDates ==
    {181 * SecondsPerDay + 84600, 546 * SecondsPerDay + 84600, 8564 * SecondsPerDay + 70400}

(* The bounds of a date filter: None, or midnight of the second day; in a    *)
(* zone with two times, midnight of 2002-07-02.                              *)
DateArgs ==
    IF tz = UTC THEN {<<>>, <<Midnight(1)>>}
    ELSE {<<>>, <<Midnight(547)>>}

Orders(S) ==
    {p \in [1..Cardinality(S) -> S] : \A i, j \in 1..Cardinality(S) : p[i] = p[j] => i = j}

----------------------------------------------------------------------------
(* Spec: one extractor over one directory *)

TreeIdle ==
    /\ storage = KeyedStorage(<<>>)
    /\ root_id = ""
    /\ storage_dict = <<>>
    /\ visited = {}
    /\ stack = <<>>
    /\ result = <<>>
    /\ status = "idle"
    /\ entered = <<>>

\* a directory of one file, the file drawn from RichDocs
InitOneFile ==
    /\ \E d \in RichDocs : dir = ("f1.json" :> d)
    /\ tz = UTC
    /\ dir_state = "readable"
    /\ room = DefaultRoom
    /\ ExtractorReady
    /\ TreeIdle

\* a directory of no, one or two files drawn from DirDocs
InitDir ==
    /\ \E S \in SUBSET Files : dir \in [S -> DirDocs]
    /\ tz = UTC
    /\ dir_state = "readable"
    /\ room = DefaultRoom
    /\ ExtractorReady
    /\ TreeIdle

\* a directory that does not exist, or one the process may not list
InitUnlisted ==
    /\ \/ dir_state = "missing" /\ dir = <<>>
       \/ dir_state \in {"unreadable", "unlistable"}
            /\ \E S \in SUBSET Files :
                 dir = [f \in S |-> MkDoc(TRUE, OneMessage, "a", "", "", 0)]
    /\ tz = UTC
    /\ room = DefaultRoom
    /\ ExtractorReady
    /\ TreeIdle

\* one file created in the summer, read in a zone with daylight time
InitZone ==
    /\ \E cd \in SummerDates : dir = ("f1.json" :> MkDoc(TRUE, OneMessage, "a", "", "", cd))
    /\ tz \in {NewYork, Berlin, Sydney}
    /\ dir_state = "readable"
    /\ room = DefaultRoom
    /\ ExtractorReady
    /\ TreeIdle

(* Read where the room is small: a path as long as the room, one a node      *)
(* longer, and the longer one beside a document of one message.              *)
InitSmallRoom ==
    /\ \/ \E n \in {SmallRoom, SmallRoom + 1} : dir = ("f1.json" :> DeepDoc(n))
       \/ dir = ("f1.json" :> DeepDoc(SmallRoom + 1)
                  @@ "f2.json" :> MkDoc(TRUE, OneMessage, "a", "", "", 0))
    /\ tz = UTC
    /\ dir_state = "readable"
    /\ room = SmallRoom
    /\ ExtractorReady
    /\ TreeIdle

Init == InitOneFile \/ InitDir \/ InitUnlisted \/ InitZone \/ InitSmallRoom

(* extract_conversation(json_file, compute_hash) called on its own, on any   *)
(* path conversations_dir / json_file.                                       *)
ExtractConversation(json_file, compute_hash) ==
    /\ Len(calls) < MaxCalls
    /\ LET r == ExtractOne(file_hashes, extraction_stats, json_file,
                           Opened(dir_state, dir, json_file), compute_hash,
                           room - LoadRoom) IN
       /\ file_hashes' = r.file_hashes
       /\ extraction_stats' = r.extraction_stats
       /\ returned' = r.conv
    /\ calls' = Append(calls, [op |-> "extract_conversation", file |-> json_file,
                               date_from |-> <<>>, date_to |-> <<>>,
                               compute_hash |-> compute_hash,
                               json_files |-> <<>>])
    /\ UNCHANGED <<dir, tz, dir_state, room, conversations>>
    /\ UNCHANGED tree_vars

(* Line 344, list(conversations_dir.glob('*.json')): listing is the order in *)
(* which the directory hands out its files.  Path.glob yields nothing for a  *)
(* directory that is missing, and drops the PermissionError of one it may    *)
(* not list; it does not raise.                                              *)
Glob(state, listing) == IF state = "readable" THEN listing ELSE <<>>

\* extract_all(date_from, date_to, compute_hashes)
ExtractAll(date_from, date_to, compute_hashes, listing) ==
    /\ Len(calls) < MaxCalls
    /\ LET json_files == Glob(dir_state, listing)
           stats0 == [extraction_stats EXCEPT !.total_files = Len(json_files)]
           r == ExtractLoop(json_files, 1,
                    [file_hashes |-> file_hashes, extraction_stats |-> stats0,
                     conversations |-> conversations],
                    date_from, date_to, compute_hashes)
           sorted == SortByCreationDesc(r.conversations)
       IN
       /\ conversations' = sorted
       /\ returned' = sorted
       /\ file_hashes' = r.file_hashes
       /\ extraction_stats' =
            [r.extraction_stats EXCEPT !.total_conversations = Len(sorted)]
    /\ calls' = Append(calls, [op |-> "extract_all", file |-> "",
                               date_from |-> date_from, date_to |-> date_to,
                               compute_hash |-> compute_hashes,
                               json_files |-> Glob(dir_state, listing)])
    /\ UNCHANGED <<dir, tz, dir_state, room>>
    /\ UNCHANGED tree_vars

\* the caller's choice of hashing, one for all calls of a run (--no-hash,
\* line 915)
HashFlags == IF calls = <<>> THEN BOOLEAN ELSE {calls[1].compute_hash}

Next ==
    \/ \E f \in Files, h \in HashFlags : ExtractConversation(f, h)
    \/ \E df \in DateArgs, dt \in DateArgs, h \in HashFlags :
         \E order \in Orders(DOMAIN dir) : ExtractAll(df, dt, h, order)

Spec == Init /\ [][Next]_vars

----------------------------------------------------------------------------
(* Properties of the extractor *)

\* the document a call on the path of f meets
DocAt(f) == Opened(dir_state, dir, f)

(* A malformed document: the file is no JSON (or cannot be opened), its list *)
(* has no id where line 299 needs one, or its 'configuration' is no object.  *)
Malformed(doc) ==
    ~doc.valid \/ DecodeStorage(doc.storage).raised \/ ConfigurationRaises(doc)

\* what parse_tree_node returns for a document: [raised, messages, visited]
WalkOf(doc) == ParseTreeNode(ResolveRoot(doc), StorageDict(doc.storage), {}, room)

\* the records in hand: the collection and what the last call returned
Records ==
    {conversations[i] : i \in 1..Len(conversations)} \cup
    {returned[i] : i \in 1..Len(returned)}

Range(seq) == {seq[k] : k \in 1..Len(seq)}

(* C5: every Message of every ConversationRecord extract_conversation        *)
(* returns, and so of every record of the collection, has non-empty content  *)
(* and a role in {user, assistant, tool}, whatever parse_tree_node returned. *)
C5_RecordsDisplayable ==
    \A r \in Records : \A k \in 1..Len(r.messages) : Displayable(r.messages[k])

\* a record is in hand for a document whose walk returned a Message with
\* empty content
C5_Witness ==
    \E r \in Records :
        \E m \in Range(WalkOf(DocAt(r.file)).messages) : ~Displayable(m)

(* C6: in every ConversationRecord the messages are in ascending order of    *)
(* timestamp, and they are a permutation of the display-eligible Messages    *)
(* the walk returned.                                                        *)
C6_MessagesAscending ==
    \A r \in Records :
        LET eligible == SelectSeq(WalkOf(DocAt(r.file)).messages, Displayable) IN
        /\ \A k \in 1..(Len(r.messages) - 1) :
              r.messages[k].timestamp <= r.messages[k + 1].timestamp
        /\ Len(r.messages) = Len(eligible)
        /\ \A m \in Range(eligible) :
              Cardinality({k \in 1..Len(eligible) : eligible[k] = m})
                = Cardinality({k \in 1..Len(r.messages) : r.messages[k] = m})

\* a record of three messages is in hand whose walk returned them with the
\* latest first and the earliest second
C6_Witness ==
    \E r \in Records :
        LET w == WalkOf(DocAt(r.file)).messages IN
        /\ Len(r.messages) = 3
        /\ Len(w) = 3
        /\ w[1].timestamp > w[3].timestamp
        /\ w[3].timestamp > w[2].timestamp

\* the first call on the extractor was extract_all, and it is the only one
FirstRun == Len(calls) = 1 /\ calls[1].op = "extract_all"

Unfiltered == calls[1].date_from = <<>> /\ calls[1].date_to = <<>>

\* the ids a walk from the start id can reach
Reachable(doc) ==
    LET sd == StorageDict(doc.storage)
        root == ResolveRoot(doc)
    IN  IF root \in DOMAIN sd THEN {root} \cup Descendants(root, sd) ELSE {}

\* the node alone would give a display-eligible Message
EligibleNode(node) ==
    /\ node.isdict
    /\ node.content = "ok"
    /\ node.author = "object"
    /\ ~node.partsnull
    /\ LET c == ConcatParts(node.parts, 1, <<>>, <<>>) IN
       ~c.raised /\ Strip(c.text) # <<>> /\ node.role \in DisplayRoles

\* a well-formed document with a display-eligible message
WellFormedWithMessage(doc) ==
    /\ ~Malformed(doc)
    /\ \E n \in Reachable(doc) : EligibleNode(StorageDict(doc.storage)[n])

RecordsOf(f) == {i \in 1..Len(conversations) : conversations[i].file = f}

(* C8: partial-failure isolation.  After extract_all over a directory with   *)
(* k malformed documents every document was attempted, failed_files = k,     *)
(* the error list has k entries, and (no date filter) every well-formed      *)
(* document with a display-eligible message has exactly one record.          *)
C8_FailureIsolation ==
    FirstRun =>
        LET listed == Range(calls[1].json_files)
            k == Cardinality({f \in listed : Malformed(DocAt(f))}) IN
        /\ extraction_stats.processed_files = Cardinality(listed)
        /\ extraction_stats.failed_files = k
        /\ Len(extraction_stats.errors) = k
        /\ Unfiltered =>
             \A f \in listed :
                 WellFormedWithMessage(DocAt(f)) => Cardinality(RecordsOf(f)) = 1

(* the calendar date of a forensic-epoch timestamp, in days since            *)
(* 2001-01-01: the date of the datetime the conversion gives                 *)
CalendarDay(cocoa_timestamp) == CocoaToDatetime(cocoa_timestamp, tz).day

\* the files of the listing extract_conversation gives a record for
Candidates ==
    {f \in Range(calls[1].json_files) :
        ExtractOne(<<>>, extraction_stats, f, DocAt(f), TRUE,
                   room - LoadRoom).conv # <<>>}

(* C9: the date-range filter is inclusive on calendar dates: extract_all     *)
(* keeps a record exactly when the calendar date of its creation_date is     *)
(* >= date_from and <= date_to, for the bounds that are given.               *)
C9_InclusiveDates ==
    FirstRun =>
        \A f \in Candidates :
            RecordsOf(f) # {} <=>
                /\ calls[1].date_from # <<>> =>
                     CalendarDay(DocAt(f).creation_date) >= calls[1].date_from[1].day
                /\ calls[1].date_to # <<>> =>
                     CalendarDay(DocAt(f).creation_date) <= calls[1].date_to[1].day

RECURSIVE SumMessageCount(_)
SumMessageCount(convs) ==
    IF convs = <<>> THEN 0
    ELSE convs[1].message_count + SumMessageCount(Tail(convs))

(* C10: after extract_all, total_messages is the sum of message_count over   *)
(* the records of the returned collection, with or without a date filter.    *)
C10_TotalMessages ==
    (calls # <<>> /\ \A i \in 1..Len(calls) : calls[i].op = "extract_all") =>
        extraction_stats.total_messages = SumMessageCount(conversations)

----------------------------------------------------------------------------
(* More properties of one reconstruction *)

\* the returned sequence holds a Message of node n
HasMessage(n) == \E k \in 1..Len(result) : result[k].id = n

\* lines 220-266 end for the node without a Message and without an exception
Silent(node_id, node) ==
    LET own == NodeMessages(node_id, node) IN ~own.raised /\ own.messages = <<>>

(* C11: a node that emits no Message (a role outside user, assistant, tool,  *)
(* empty text, or no content at all) does not stop the traversal: when the   *)
(* call has ended, each of its children that is a key was visited, and every *)
(* display-eligible node reachable through it has its Message in the         *)
(* returned sequence.                                                        *)
C11_SilentNodesPassThrough ==
    Halted =>
        \A n \in visited :
            Silent(n, storage_dict[n]) =>
                /\ ChildKeys(n, storage_dict) \subseteq visited
                /\ \A d \in Descendants(n, storage_dict) :
                       EligibleNode(storage_dict[d]) => HasMessage(d)

IsImage(part) == part.kind = "dict" /\ part.ctype = "image_asset_pointer"

\* what one part adds to the content
PartText(part) ==
    CASE part.kind = "str" -> part.text
      [] part.kind = "dict" /\ part.ctype \in {"text", "audio_transcription"} -> part.text
      [] IsImage(part) -> <<"[IMAGE_PLACEHOLDER]">>
      [] OTHER -> <<>>

RECURSIVE Concatenation(_)
Concatenation(parts) ==
    IF parts = <<>> THEN <<>>
    ELSE Concatenation(SubSeq(parts, 1, Len(parts) - 1)) \o PartText(parts[Len(parts)])

\* the asset pointers of the image parts, in part order
ImagesOf(parts) ==
    LET imgs == SelectSeq(parts, IsImage) IN
    [k \in 1..Len(imgs) |-> imgs[k].asset_pointer]

(* C19: a Message's content is the trimmed concatenation, in part order, of  *)
(* each plain-string part, the text of each typed part of type text or       *)
(* audio_transcription, the literal [IMAGE_PLACEHOLDER] for each             *)
(* image_asset_pointer part, and nothing for any other part; its images list *)
(* has one entry per image part, in part order, and is absent when there is  *)
(* no image part.                                                            *)
C19_ContentOfParts ==
    \A m \in Range(Accumulated(stack)) \cup Range(result) :
        LET parts == storage_dict[m.id].parts IN
        /\ m.content = Strip(Concatenation(parts))
        /\ m.has_images = (\E k \in 1..Len(parts) : IsImage(parts[k]))
        /\ m.has_images => m.images = ImagesOf(parts)

\* the walk returned the Message of a node whose parts are " ", an image,
\* two parts of other kinds and the transcription "hi", the Message "h w" of
\* a node with a string and a typed text part, and the Message of a node
\* with two images, a string and a number between them
C19_Witness ==
    /\ status = "returned"
    /\ \E m \in Range(result) :
         /\ Len(storage_dict[m.id].parts) = 4
         /\ m.content = <<"[IMAGE_PLACEHOLDER]", "x", "[IMAGE_PLACEHOLDER]">>
         /\ m.images = <<"file-2", "file-1">>
    /\ \E m \in Range(result) :
         /\ Len(storage_dict[m.id].parts) = 5
         /\ m.content = <<"[IMAGE_PLACEHOLDER]", "h", "i">>
         /\ m.images = <<"file-1">>
    /\ \E m \in Range(result) :
         /\ m.content = <<"h", Blank, "w">>
         /\ ~m.has_images

(* Depth-first pre-order by a work list: the first id of the list is taken; *)
(* an id seen before, or one that is no key, is dropped; any other id is     *)
(* next in the order, and its children go in front of the rest of the list.  *)
RECURSIVE WorkOrder(_, _, _)
WorkOrder(work, sd, seen) ==
    IF work = <<>> THEN <<>>
    ELSE LET x == Head(work) IN
         IF x \in seen \/ x \notin DOMAIN sd THEN WorkOrder(Tail(work), sd, seen)
         ELSE <<x>> \o WorkOrder(sd[x].children \o Tail(work), sd, seen \cup {x})

\* lines 220-266 give a Message for the node
EmitsMessage(n) == NodeMessages(n, storage_dict[n]).messages # <<>>

IsPrefix(s, t) == Len(s) <= Len(t) /\ s = SubSeq(t, 1, Len(s))

(* C20: parse_tree_node accumulates in depth-first pre-order: a node's own   *)
(* Message precedes the Messages of the calls on its children, the Messages  *)
(* of the call on an earlier child precede those of the call on a later      *)
(* child, and a node reachable through several parents gives its Message at  *)
(* its first reach in this order only.                                       *)
C20_PreOrder ==
    status \in {"walking", "returned", "raised"} =>
        LET order == WorkOrder(<<root_id>>, storage_dict, {}) IN
        /\ IsPrefix(entered, order)
        /\ status = "walking" =>
               MsgIds(Accumulated(stack)) = SelectSeq(entered, EmitsMessage)
        /\ status = "returned" =>
               /\ entered = order
               /\ MsgIds(result) = SelectSeq(order, EmitsMessage)

\* the walk returned the Messages of a, b, c, d in this order: a lists b
\* before d, the call on b gave the Messages of b and of its child c, and d
\* lists c again
C20_Witness ==
    /\ status = "returned"
    /\ MsgIds(result) = <<"a", "b", "c", "d">>
    /\ storage_dict["a"].children = <<"b", "d">>
    /\ storage_dict["b"].children = <<"c">>
    /\ "c" \in ChildKeys("d", storage_dict)

----------------------------------------------------------------------------
(* More properties of the extractor *)

\* the start id of the document is set but is no key of its mapping
AbsentStart(doc) ==
    /\ doc.valid
    /\ ~DecodeStorage(doc.storage).raised
    /\ ResolveRoot(doc) # ""
    /\ ResolveRoot(doc) \notin DOMAIN StorageDict(doc.storage)

LastCall == calls[Len(calls)]

(* C12: when the start id is not a key of the mapping (the empty mapping     *)
(* included) parse_tree_node returns the empty sequence, and                 *)
(* extract_conversation returns no record for that document.                 *)
C12_AbsentStartNoRecord ==
    \A f \in Files :
        AbsentStart(DocAt(f)) =>
            /\ WalkOf(DocAt(f)) = [raised |-> FALSE, messages |-> <<>>, visited |-> {}]
            /\ \A r \in Records : r.file # f
            /\ (calls # <<>> /\ LastCall.op = "extract_conversation"
                    /\ LastCall.file = f) => returned = <<>>

\* extract_conversation was called twice on a document whose start id is no
\* key of a mapping that has keys
C12_Witness ==
    /\ Len(calls) = 2
    /\ \A i \in 1..2 : calls[i].op = "extract_conversation"
    /\ AbsentStart(DocAt(calls[2].file))
    /\ DOMAIN StorageDict(DocAt(calls[2].file).storage) # {}

\* the filtered message list of line 311 for a document
FilteredOf(doc) == FilterDisplay(SortByTimestamp(WalkOf(doc).messages))

(* C13: no ConversationRecord with zero messages is ever emitted:            *)
(* extract_conversation returns None whenever the filtered message list is   *)
(* empty, so every record has message_count >= 1, equal to the length of     *)
(* its messages list.                                                        *)
C13_NoEmptyRecord ==
    /\ \A r \in Records :
           r.message_count >= 1 /\ r.message_count = Len(r.messages)
    /\ \A f \in Files :
           (DocAt(f).valid /\ ResolveRoot(DocAt(f)) # "" /\ ~WalkOf(DocAt(f)).raised
                /\ FilteredOf(DocAt(f)) = <<>>) =>
               \A r \in Records : r.file # f

\* extract_all has collected a record from a directory that also holds a
\* document whose walk returned a Message and whose filtered list is empty
C13_Witness ==
    /\ calls # <<>>
    /\ LastCall.op = "extract_all"
    /\ conversations # <<>>
    /\ \E f \in Range(LastCall.json_files) :
         /\ DocAt(f).valid
         /\ ~WalkOf(DocAt(f)).raised
         /\ WalkOf(DocAt(f)).messages # <<>>
         /\ FilteredOf(DocAt(f)) = <<>>

\* a well-formed document with no start id, or with no display-eligible
\* message for the reconstruction to yield
EmptyResult(doc) == ~Malformed(doc) /\ ~WellFormedWithMessage(doc)

(* C14: an empty-result document (no resolvable root id, or a reconstruction *)
(* that yields no display-eligible message) is dropped without being         *)
(* reported as an error: no entry of the error list (and no count of         *)
(* failed_files) is for such a document, and no record is.                   *)
C14_EmptyResultNoError ==
    /\ extraction_stats.failed_files = Len(extraction_stats.errors)
    /\ \A f \in Files :
           EmptyResult(DocAt(f)) =>
               /\ f \notin Range(extraction_stats.errors)
               /\ \A r \in Records : r.file # f

Descending(convs) ==
    \A i \in 1..(Len(convs) - 1) : convs[i].creation_date >= convs[i + 1].creation_date

(* C15: the collection extract_all returns is in descending order of         *)
(* creation_date, for every set of documents and every order in which the    *)
(* directory lists its files.                                                *)
C15_CollectionDescending ==
    /\ Descending(conversations)
    /\ (calls # <<>> /\ LastCall.op = "extract_all") =>
           returned = conversations /\ Descending(returned)

\* extract_all returned two records of different creation dates, the file
\* the directory listed second in front
C15_Witness ==
    /\ calls # <<>>
    /\ LastCall.op = "extract_all"
    /\ Len(returned) = 2
    /\ returned[1].creation_date > returned[2].creation_date
    /\ returned[1].file = LastCall.json_files[2]
    /\ returned[2].file = LastCall.json_files[1]

\* the start id by the order of the chain: 1 tree.root_node_id,
\* 2 tree.current_node_id, 3 current_leaf_node_id, "" when none is set
ChainStart(doc) ==
    LET fields == <<doc.root_node_id, doc.current_node_id, doc.current_leaf_node_id>>
        set == {i \in 1..3 : fields[i] # ""}
    IN  IF set = {} THEN ""
        ELSE fields[CHOOSE i \in set : \A j \in set : i <= j]

\* the messages of the record a walk from start gives; <<>> for no record
MessagesFrom(doc, start) ==
    LET walk == ParseTreeNode(start, StorageDict(doc.storage), {}, room) IN
    IF walk.raised THEN <<>> ELSE FilterDisplay(SortByTimestamp(walk.messages))

(* C16: the start id is resolved by a chain in fixed order:                  *)
(* tree.root_node_id if set, else tree.current_node_id if set, else the      *)
(* top-level current_leaf_node_id if set; else the document yields no        *)
(* record and no error.                                                      *)
C16_FallbackChain ==
    /\ \A r \in Records :
           r.messages = MessagesFrom(DocAt(r.file), ChainStart(DocAt(r.file)))
    /\ (calls # <<>> /\ LastCall.op = "extract_conversation") =>
           LET doc == DocAt(LastCall.file) IN
           (~Malformed(doc) /\ ChainStart(doc) # "") =>
               Len(returned) = (IF MessagesFrom(doc, ChainStart(doc)) = <<>> THEN 0 ELSE 1)
    /\ \A f \in Files :
           (~Malformed(DocAt(f)) /\ ChainStart(DocAt(f)) = "") =>
               /\ \A r \in Records : r.file # f
               /\ f \notin Range(extraction_stats.errors)

\* extract_conversation returned the record of the walk from the
\* current_node_id of a document that sets no root_node_id and whose
\* current_leaf_node_id names another node
C16_Witness ==
    /\ calls # <<>>
    /\ LastCall.op = "extract_conversation"
    /\ LET doc == DocAt(LastCall.file) IN
       /\ doc.root_node_id = ""
       /\ doc.current_node_id = "b"
       /\ doc.current_leaf_node_id = "a"
       /\ Len(returned) = 1
       /\ returned[1].messages[1].id = "b"

(* C17: run-level I/O failure is fatal: when the input directory cannot be   *)
(* read (missing or unreadable) extract_all surfaces the failure as an       *)
(* error; it does not complete and return an empty collection with           *)
(* total_files = 0.                                                          *)
C17_IOFailureFatal ==
    ~ /\ dir_state # "readable"
      /\ calls # <<>>
      /\ LastCall.op = "extract_all"
      /\ returned = <<>>
      /\ extraction_stats.total_files = 0

(* extract_all on a new extractor over the directory as it is, the files     *)
(* listed in the given order: the collection returned and the hash of every  *)
(* file.                                                                     *)
FreshRun(listing, date_from, date_to, compute_hashes) ==
    LET json_files == Glob(dir_state, listing)
        r == ExtractLoop(json_files, 1,
                 [file_hashes |-> <<>>,
                  extraction_stats |->
                      [total_files |-> Len(json_files), processed_files |-> 0,
                       failed_files |-> 0, total_conversations |-> 0,
                       total_messages |-> 0, errors |-> <<>>],
                  conversations |-> <<>>],
                 date_from, date_to, compute_hashes)
        sorted == SortByCreationDesc(r.conversations)
    IN  [conversations |-> sorted,
         file_hashes |-> r.file_hashes,
         extraction_stats |->
             [r.extraction_stats EXCEPT !.total_conversations = Len(sorted)]]

(* C18: determinism.  Two runs of extract_all over the same unchanged        *)
(* directory give the same content hash for every file and the same ordered  *)
(* sequence of ConversationRecords, in whatever order the directory lists    *)
(* its files in each run, also when records share a creation_date.           *)
C18_Deterministic ==
    FirstRun =>
        \A listing \in Orders(DOMAIN dir) :
            LET again == FreshRun(listing, calls[1].date_from, calls[1].date_to,
                                  calls[1].compute_hash)
            IN  /\ again.file_hashes = file_hashes
                /\ again.conversations = returned

RECURSIVE Attempted(_)
\* the documents the calls made so far have attempted
Attempted(cs) ==
    IF cs = <<>> THEN 0
    ELSE Attempted(SubSeq(cs, 1, Len(cs) - 1))
           + (IF cs[Len(cs)].op = "extract_conversation" THEN 1
              ELSE Len(cs[Len(cs)].json_files))

(* C21: over any sequence of calls failed_files equals the length of the     *)
(* error list and is at most processed_files, and processed_files counts     *)
(* every attempted document, failed and dropped ones included; after a       *)
(* single extract_all on a new extractor processed_files = total_files and   *)
(* total_conversations = the length of the returned collection               *)
(* <= processed_files - failed_files.                                        *)
C21_StatsInvariant ==
    /\ extraction_stats.failed_files = Len(extraction_stats.errors)
    /\ extraction_stats.failed_files <= extraction_stats.processed_files
    /\ extraction_stats.processed_files = Attempted(calls)
    /\ FirstRun =>
           /\ extraction_stats.processed_files = extraction_stats.total_files
           /\ extraction_stats.total_conversations = Len(returned)
           /\ Len(returned) <= extraction_stats.processed_files
                                 - extraction_stats.failed_files

\* a single extract_all over two files has returned one record, counted one
\* failed file, and before it no call was made
C21_Witness ==
    /\ FirstRun
    /\ extraction_stats.processed_files = 2
    /\ extraction_stats.failed_files = 1
    /\ Len(returned) = 1

\* every call so far was extract_all, with the arguments of the first
SameRuns ==
    /\ calls # <<>>
    /\ \A i \in 1..Len(calls) :
         /\ calls[i].op = "extract_all"
         /\ calls[i].date_from = calls[1].date_from
         /\ calls[i].date_to = calls[1].date_to
         /\ calls[i].json_files = calls[1].json_files

(* C22: after any number of extract_all calls on the same extractor over an  *)
(* unchanged directory the collection holds at most one record per source    *)
(* file, and total_conversations, processed_files, failed_files and          *)
(* total_messages are what they were after the first call.                   *)
C22_ExtractAllIdempotent ==
    SameRuns =>
        LET first == FreshRun(calls[1].json_files, calls[1].date_from,
                              calls[1].date_to, calls[1].compute_hash).extraction_stats
        IN  /\ \A f \in Files : Cardinality(RecordsOf(f)) <= 1
            /\ extraction_stats.total_conversations = first.total_conversations
            /\ extraction_stats.processed_files = first.processed_files
            /\ extraction_stats.failed_files = first.failed_files
            /\ extraction_stats.total_messages = first.total_messages

\* tree.root_node_id is set and is no key of the mapping
UnresolvableRoot(doc) ==
    /\ doc.valid
    /\ ~DecodeStorage(doc.storage).raised
    /\ doc.root_node_id # ""
    /\ doc.root_node_id \notin DOMAIN StorageDict(doc.storage)

(* C23: the chain falls through only on an unset field, never on an          *)
(* unresolvable one: when tree.root_node_id is set but is no key of the      *)
(* mapping the document yields no record, even if tree.current_node_id or    *)
(* current_leaf_node_id names a node with display-eligible messages.         *)
C23_NoFallThroughOnUnresolvable ==
    \A f \in Files :
        UnresolvableRoot(DocAt(f)) =>
            /\ \A r \in Records : r.file # f
            /\ (calls # <<>> /\ LastCall.op = "extract_conversation"
                    /\ LastCall.file = f) => returned = <<>>

\* extract_conversation returned None for a document whose root_node_id is
\* no key while its current_node_id and its current_leaf_node_id each name a
\* node with a display-eligible message
C23_Witness ==
    /\ calls # <<>>
    /\ LastCall.op = "extract_conversation"
    /\ returned = <<>>
    /\ LET doc == DocAt(LastCall.file)
           sd == StorageDict(doc.storage) IN
       /\ UnresolvableRoot(doc)
       /\ doc.current_node_id \in DOMAIN sd
       /\ doc.current_leaf_node_id \in DOMAIN sd
       /\ doc.current_node_id # doc.current_leaf_node_id
       /\ EligibleNode(sd[doc.current_node_id])
       /\ EligibleNode(sd[doc.current_leaf_node_id])

====
